---- MODULE Spec2Model ----
(***************************************************************************)
(* Model of megatron/model/module.py (Megatron-LM v2.3):                   *)
(*   - MegatronModule: the shared word-embedding protocol between the      *)
(*     first and the last pipeline stage (word_embeddings_weight,          *)
(*     initialize_word_embeddings);                                        *)
(*   - conversion_helper / fp32_to_float16 / float16_to_fp32;              *)
(*   - Float16Module: construction and forward.                            *)
(* One worker per pipeline rank; the collective all_reduce is a rendezvous *)
(* of the embedding group.                                                 *)
(***************************************************************************)
EXTENDS Integers, Sequences, FiniteSets, TLC

\* ------------------------------------------------------------------ bounds
MaxStages == 3      \* largest pipeline_model_parallel_size explored
MaxVirtual == 2     \* largest virtual pipeline world size explored
MaxCalls == 4       \* total calls of initialize_word_embeddings explored
TensorLen == 2      \* elements of an embedding weight tensor (flattened)
MaxNodes == 4       \* nodes of a nested list/tuple value (one fewer in forward)

\* ------------------------------------------------------------ state
VARIABLES
    pipeline_model_parallel_size,   \* args.pipeline_model_parallel_size
    virtual_world_size,             \* mpu virtual pipeline world size, None or >= 2
    initialized,                    \* torch.distributed.is_initialized()
    share_word_embeddings,          \* [rank -> BOOLEAN], self.share_word_embeddings
    weight,                         \* [rank -> parameter | NoAttr], language_model.embedding.word_embeddings.weight
    word_embeddings,                \* [rank -> parameter | NoAttr], self.word_embeddings.weight
    pc,                             \* [rank -> "idle" | "all_reduce" | "reduced"]
    calls,                          \* [rank -> number of calls of initialize_word_embeddings]
    result,                         \* [rank -> outcome of the latest call]
    stage,                          \* [rank -> role the latest call ran under]
    warnings,                       \* [rank -> number of warnings printed]
    reduces,                        \* [rank -> number of all_reduce calls entered]
    allocs,                         \* [rank -> number of VocabParallelEmbedding allocations]
    weight0,                        \* the first stage's weight at construction
    val,                            \* conversion_helper: the value passed
    conversion,                     \* conversion_helper: the leaf conversion passed
    rtn,                            \* conversion_helper: the value returned
    rtn2,                           \* conversion_helper: the value returned for rtn
    f16,                            \* the Float16Module object
    fwd,                            \* the latest Float16Module.forward call
    inner,                          \* the wrapped module (self.module): its parameters
    saved                           \* the latest state_dict / load_state_dict call

coordVars == <<pipeline_model_parallel_size, virtual_world_size, initialized,
               share_word_embeddings, weight, word_embeddings, pc, calls,
               result, stage, warnings, reduces, allocs, weight0>>

convVars == <<val, conversion, rtn, rtn2>>

wrapVars == <<f16, fwd, inner, saved>>

vars == <<coordVars, convVars, wrapVars>>

\* get_virtual_pipeline_model_parallel_world_size() is None
None == 0
\* an attribute that was never set: reading it raises AttributeError
NoAttr == [exists |-> FALSE, data |-> <<>>, shared |-> FALSE]

Ranks == 0 .. (pipeline_model_parallel_size - 1)

ElemValues == {0, 1}
Tensors == [1 .. TensorLen -> ElemValues]

\* ------------------------------------------------------------ mpu
\* Virtual ranks a process can be at when it calls into the module.
VirtualRanks ==
    IF virtual_world_size = None THEN {0} ELSE 0 .. (virtual_world_size - 1)

is_pipeline_first_stage(p, v, ignore_virtual) ==
    IF ~ignore_virtual /\ virtual_world_size # None /\ v # 0
    THEN FALSE
    ELSE p = 0

is_pipeline_last_stage(p, v, ignore_virtual) ==
    IF ~ignore_virtual /\ virtual_world_size # None /\ v # virtual_world_size - 1
    THEN FALSE
    ELSE p = pipeline_model_parallel_size - 1

\* mpu.get_embedding_group(): the first and the last pipeline rank.
embedding_group ==
    IF pipeline_model_parallel_size > 1
    THEN {0, pipeline_model_parallel_size - 1}
    ELSE {0}

\* ------------------------------------------------------------ tensors
fill__skip(t, x) == t

\* tensor.data.fill_(x)
fill_(t, x) == [i \in DOMAIN t |-> x]

RECURSIVE SumOver(_, _)
SumOver(S, f) ==
    IF S = {} THEN 0
    ELSE LET q == CHOOSE q \in S : TRUE IN f[q] + SumOver(S \ {q}, f)

\* ------------------------------------------------------------ MegatronModule
\* the last stage's test of share_word_embeddings left out
word_embeddings_weight_nocheck(p, attr) ==
    IF is_pipeline_first_stage(p, 0, TRUE)
    THEN IF ~weight[p].exists THEN "AttributeError" ELSE "native"
    ELSE IF is_pipeline_last_stage(p, 0, TRUE)
    THEN IF ~attr.exists THEN "AttributeError" ELSE "head"
    ELSE "RoleError"

\* the final raise left out: every worker but the first is treated as the last
word_embeddings_weight_fallthrough(p, attr) ==
    IF is_pipeline_first_stage(p, 0, TRUE)
    THEN IF ~weight[p].exists THEN "AttributeError" ELSE "native"
    ELSE IF ~share_word_embeddings[p] THEN "ShareError"
    ELSE IF ~attr.exists THEN "AttributeError" ELSE "head"

\* the last stage tested before the first
word_embeddings_weight_lastfirst(p, attr) ==
    IF is_pipeline_last_stage(p, 0, TRUE)
    THEN IF ~share_word_embeddings[p] THEN "ShareError"
         ELSE IF ~attr.exists THEN "AttributeError" ELSE "head"
    ELSE IF is_pipeline_first_stage(p, 0, TRUE)
    THEN IF ~weight[p].exists THEN "AttributeError" ELSE "native"
    ELSE "RoleError"

\* word_embeddings_weight(): the tensor the worker's role designates, or the
\* exception raised.  attr is the value of self.word_embeddings at the call.
word_embeddings_weight(p, attr) ==
    IF is_pipeline_first_stage(p, 0, TRUE)
    THEN IF ~weight[p].exists THEN "AttributeError" ELSE "native"
    ELSE IF is_pipeline_last_stage(p, 0, TRUE)
    THEN IF ~share_word_embeddings[p] THEN "ShareError"
         ELSE IF ~attr.exists THEN "AttributeError" ELSE "head"
    ELSE "RoleError"

IsTensorRef(r) == r \in {"native", "head"}

\* The data of the tensor word_embeddings_weight() designates on rank p.
Data(p) ==
    IF word_embeddings_weight(p, word_embeddings[p]) = "native"
    THEN weight[p].data
    ELSE word_embeddings[p].data

ShareDisabled_ignored(p) == FALSE

\* not self.share_word_embeddings, the first test of initialize_word_embeddings
ShareDisabled(p) == ~share_word_embeddings[p]

SingleStage_never == FALSE

SingleStage_zero == pipeline_model_parallel_size = 0

\* args.pipeline_model_parallel_size == 1
SingleStage == pipeline_model_parallel_size = 1

is_initialized_always == TRUE

\* torch.distributed.is_initialized()
is_initialized == initialized

\* only the last stage takes part
Participates_lastonly(p, v) == is_pipeline_last_stage(p, v, FALSE)

\* the role tested as word_embeddings_weight tests it, virtual stages ignored
Participates_ignore_virtual(p, v) ==
    is_pipeline_first_stage(p, v, TRUE) \/ is_pipeline_last_stage(p, v, TRUE)

\* mpu.is_pipeline_first_stage() or mpu.is_pipeline_last_stage()
Participates(p, v) ==
    is_pipeline_first_stage(p, v, FALSE) \/ is_pipeline_last_stage(p, v, FALSE)

\* the shared tag left out
NewEmbedding_untagged(old, fresh) ==
    [exists |-> TRUE, data |-> fill_(fresh, 0), shared |-> FALSE]

\* the embedding allocated on the first call only
NewEmbedding_keep(old, fresh) ==
    IF old.exists THEN old
    ELSE [exists |-> TRUE, data |-> fill_(fresh, 0), shared |-> TRUE]

\* self.word_embeddings = mpu.VocabParallelEmbedding(...), zeroed and tagged;
\* old is the attribute's value before, fresh what init_method left in the new one
NewEmbedding(old, fresh) ==
    [exists |-> TRUE, data |-> fill_(fresh, 0), shared |-> TRUE]

\* param_is_not_shared(param)
param_is_not_shared(param) == ~param.shared

Role(p, v) ==
    IF is_pipeline_first_stage(p, v, FALSE)
    THEN IF is_pipeline_last_stage(p, v, FALSE) THEN "both" ELSE "first"
    ELSE IF is_pipeline_last_stage(p, v, FALSE) THEN "last" ELSE "neither"

Outcome(p, v, e) ==
    /\ result' = [result EXCEPT ![p] = e]
    /\ stage' = [stage EXCEPT ![p] = Role(p, v)]

\* initialize_word_embeddings() on rank p, called while the process is at
\* virtual rank v, up to its return, its exception, or its entry into the
\* all_reduce.  fresh is what init_method leaves in the new embedding.
initialize_word_embeddings(p, v) ==
    /\ pc[p] = "idle"
    /\ calls' = [calls EXCEPT ![p] = @ + 1]
    /\ UNCHANGED <<pipeline_model_parallel_size, virtual_world_size, initialized,
                   share_word_embeddings, weight, weight0, convVars, wrapVars>>
    /\ IF ShareDisabled(p)
       THEN /\ Outcome(p, v, "ShareError")
            /\ UNCHANGED <<word_embeddings, pc, warnings, reduces, allocs>>
       ELSE IF SingleStage
       THEN /\ Outcome(p, v, "returned")
            /\ UNCHANGED <<word_embeddings, pc, warnings, reduces, allocs>>
       ELSE IF is_pipeline_last_stage(p, v, FALSE) /\ is_pipeline_first_stage(p, v, FALSE)
       THEN /\ Outcome(p, v, "AssertionError")
            /\ UNCHANGED <<word_embeddings, pc, warnings, reduces, allocs>>
       ELSE \E fresh \in Tensors :
            LET last == is_pipeline_last_stage(p, v, FALSE)
                first == is_pipeline_first_stage(p, v, FALSE)
                attr == IF last
                        THEN NewEmbedding(word_embeddings[p], fresh)
                        ELSE word_embeddings[p]
                ref == word_embeddings_weight(p, attr)
            IN  /\ word_embeddings' = [word_embeddings EXCEPT ![p] = attr]
                /\ allocs' = [allocs EXCEPT ![p] = IF last THEN @ + 1 ELSE @]
                /\ IF is_initialized
                   THEN /\ UNCHANGED warnings
                        /\ IF Participates(p, v)
                           THEN IF IsTensorRef(ref)
                                THEN /\ pc' = [pc EXCEPT ![p] = "all_reduce"]
                                     /\ reduces' = [reduces EXCEPT ![p] = @ + 1]
                                     /\ Outcome(p, v, "all_reduce")
                                ELSE /\ Outcome(p, v, ref)
                                     /\ UNCHANGED <<pc, reduces>>
                           ELSE /\ Outcome(p, v, "returned")
                                /\ UNCHANGED <<pc, reduces>>
                   ELSE /\ warnings' = [warnings EXCEPT ![p] = @ + 1]
                        /\ Outcome(p, v, "returned")
                        /\ UNCHANGED <<pc, reduces>>

\* A call at any virtual rank, within the number of calls explored.
InitCall(p, v) ==
    /\ SumOver(Ranks, calls) < MaxCalls
    /\ initialize_word_embeddings(p, v)

\* The value torch.distributed.all_reduce leaves in every member's tensor:
\* the element-wise sum over the group.
all_reduce(S) ==
    [i \in 1 .. TensorLen |-> SumOver(S, [q \in S |-> Data(q)[i]])]

\* The members of the group that are inside the all_reduce.
Arrived == {q \in embedding_group : pc[q] = "all_reduce"}

\* the collective does not wait for the whole group
Rendezvous_any == Arrived # {}

\* Every member of the group has entered the all_reduce.
Rendezvous == Arrived = embedding_group

\* The collective completes once every member of the group has entered it.
AllReduce ==
    /\ Rendezvous
    /\ LET total == all_reduce(Arrived)
           native(q) == word_embeddings_weight(q, word_embeddings[q]) = "native"
       IN  /\ weight' = [q \in Ranks |->
                IF q \in Arrived /\ native(q)
                THEN [weight[q] EXCEPT !.data = total]
                ELSE weight[q]]
           /\ word_embeddings' = [q \in Ranks |->
                IF q \in Arrived /\ ~native(q)
                THEN [word_embeddings[q] EXCEPT !.data = total]
                ELSE word_embeddings[q]]
    /\ pc' = [q \in Ranks |-> IF q \in Arrived THEN "reduced" ELSE pc[q]]
    /\ UNCHANGED <<pipeline_model_parallel_size, virtual_world_size, initialized,
                   share_word_embeddings, calls, result, stage, warnings,
                   reduces, allocs, weight0, convVars, wrapVars>>

\* the all_reduce gives up waiting
InitReturn_timeout(p) ==
    /\ pc[p] \in {"reduced", "all_reduce"}
    /\ pc' = [pc EXCEPT ![p] = "idle"]
    /\ result' = [result EXCEPT ![p] = "returned"]
    /\ UNCHANGED <<pipeline_model_parallel_size, virtual_world_size, initialized,
                   share_word_embeddings, weight, word_embeddings, calls, stage,
                   warnings, reduces, allocs, weight0, convVars, wrapVars>>

\* initialize_word_embeddings() returns after the all_reduce.
InitReturn(p) ==
    /\ pc[p] = "reduced"
    /\ pc' = [pc EXCEPT ![p] = "idle"]
    /\ result' = [result EXCEPT ![p] = "returned"]
    /\ UNCHANGED <<pipeline_model_parallel_size, virtual_world_size, initialized,
                   share_word_embeddings, weight, word_embeddings, calls, stage,
                   warnings, reduces, allocs, weight0, convVars, wrapVars>>

\* ------------------------------------------------------------ nested values
\* Leaves: tensors by class and dtype, and one value that is no tensor.
Leaves ==
    [cls : {"Tensor"}, dtype : {"float32", "float16", "bfloat16", "int64", "float64"}]
    \cup [cls : {"Parameter"}, dtype : {"float32", "float16"}]
    \cup {[cls |-> "object", dtype |-> "none"]}

RECURSIVE TreesOfSize(_), ForestsOfSize(_)
\* The nested lists and tuples with exactly n nodes (containers and leaves).
TreesOfSize(n) ==
    IF n <= 0 THEN {}
    ELSE (IF n = 1 THEN Leaves ELSE {})
         \cup {[tag |-> c, kids |-> ks] :
                  c \in {"list", "tuple"}, ks \in ForestsOfSize(n - 1)}

ForestsOfSize(m) ==
    IF m = 0 THEN {<<>>}
    ELSE UNION {{<<t>> \o f : t \in TreesOfSize(k), f \in ForestsOfSize(m - k)} :
                  k \in 1 .. m}

Trees == UNION {TreesOfSize(n) : n \in 1 .. MaxNodes}

\* isinstance(val, (tuple, list))
IsContainer(t) == "tag" \in DOMAIN t

Unset == [tag |-> "unset", kids |-> <<>>]

tuple_forgotten(rtn_list) == rtn_list

\* tuple(rtn)
tuple(rtn_list) == [tag |-> "tuple", kids |-> rtn_list.kids]

RECURSIVE conversion_helper(_, _)
conversion_helper(v, conv) ==
    IF ~IsContainer(v)
    THEN conv[v]
    ELSE LET rtn_list == [tag |-> "list",
                          kids |-> [i \in 1 .. Len(v.kids) |->
                                      conversion_helper(v.kids[i], conv)]]
         IN  IF v.tag = "tuple" THEN tuple(rtn_list) ELSE rtn_list

\* val.data of a Parameter: the tensor it wraps
data(l) == [cls |-> "Tensor", dtype |-> l.dtype]

\* isinstance(x, (Parameter, Variable)) then x.data, else x
typecheck(l) == IF l.cls = "Parameter" THEN data(l) ELSE l

\* val.half(), val.bfloat16(), val.float()
half == [l \in Leaves |-> [cls |-> "Tensor", dtype |-> "float16"]]
bfloat16 == [l \in Leaves |-> [cls |-> "Tensor", dtype |-> "bfloat16"]]
float_double == [l \in Leaves |-> [cls |-> "Tensor", dtype |-> "float64"]]
float == [l \in Leaves |-> [cls |-> "Tensor", dtype |-> "float32"]]

_FLOAT_TYPES == {"float32"}
_HALF_TYPES == {"float16"}
_BF16_TYPES == {"bfloat16"}

\* the dtype test left out: every tensor is converted
half_conversion_any(float16_convertor) ==
    [l \in Leaves |->
        IF typecheck(l).cls = "Tensor" THEN float16_convertor[l] ELSE l]

half_conversion(float16_convertor) ==
    [l \in Leaves |->
        IF typecheck(l).cls = "Tensor" /\ typecheck(l).dtype \in _FLOAT_TYPES
        THEN float16_convertor[l]
        ELSE l]

fp32_to_float16(v, float16_convertor) ==
    conversion_helper(v, half_conversion(float16_convertor))

\* _BF16_TYPES left out of the test
float_conversion_halfonly ==
    [l \in Leaves |->
        IF typecheck(l).cls = "Tensor" /\ typecheck(l).dtype \in _HALF_TYPES
        THEN float[l]
        ELSE l]

float_conversion ==
    [l \in Leaves |->
        IF typecheck(l).cls = "Tensor" /\ typecheck(l).dtype \in (_BF16_TYPES \cup _HALF_TYPES)
        THEN float[l]
        ELSE l]

\* the exit conversion left out
float16_to_fp32_skip(v) == v

float16_to_fp32(v) == conversion_helper(v, float_conversion)

\* A conversion without fixed points among the tensors, as an argument of
\* conversion_helper next to the module's own two.
next_dtype ==
    [l \in Leaves |->
        IF l.dtype = "float32" THEN [l EXCEPT !.dtype = "float16"]
        ELSE IF l.dtype = "float16" THEN [cls |-> "Tensor", dtype |-> "bfloat16"]
        ELSE IF l.dtype = "bfloat16" THEN [l EXCEPT !.dtype = "float32"]
        ELSE IF l.dtype = "int64" THEN [l EXCEPT !.dtype = "float64"]
        ELSE IF l.dtype = "float64" THEN [l EXCEPT !.dtype = "int64"]
        ELSE [cls |-> "Tensor", dtype |-> "int64"]]

Conversions ==
    {half_conversion(half), half_conversion(bfloat16), float_conversion, next_dtype}

\* A call conversion_helper(val, conversion).
Convert ==
    /\ rtn = Unset
    /\ rtn' = conversion_helper(val, conversion)
    /\ UNCHANGED <<val, conversion, rtn2, coordVars, wrapVars>>

\* A second call, on the value the first returned.
Reconvert ==
    /\ rtn # Unset
    /\ rtn2 = Unset
    /\ rtn2' = conversion_helper(rtn, conversion)
    /\ UNCHANGED <<val, conversion, rtn, coordVars, wrapVars>>

\* ------------------------------------------------------------ Float16Module
NoModule == [state |-> "none", fp16 |-> FALSE, bf16 |-> FALSE,
             float16_convertor |-> <<>>, module |-> "float32"]

NoCall == [first |-> FALSE, last |-> FALSE, inputs |-> Unset, kwargs |-> <<>>,
           module_inputs |-> Unset, module_kwargs |-> <<>>,
           module_outputs |-> Unset, outputs |-> Unset]

\* args.bf16 tested before args.fp16
Float16Module_bf16first(fp16, bf16) ==
    IF bf16
    THEN [state |-> "ok", fp16 |-> fp16, bf16 |-> bf16,
          float16_convertor |-> bfloat16, module |-> "bfloat16"]
    ELSE IF fp16
    THEN [state |-> "ok", fp16 |-> fp16, bf16 |-> bf16,
          float16_convertor |-> half, module |-> "float16"]
    ELSE [state |-> "Exception", fp16 |-> fp16, bf16 |-> bf16,
          float16_convertor |-> <<>>, module |-> "float32"]

\* Float16Module.__init__(module, args) with args.fp16 = fp16, args.bf16 = bf16
Float16Module(fp16, bf16) ==
    IF fp16
    THEN [state |-> "ok", fp16 |-> fp16, bf16 |-> bf16,
          float16_convertor |-> half, module |-> "float16"]
    ELSE IF bf16
    THEN [state |-> "ok", fp16 |-> fp16, bf16 |-> bf16,
          float16_convertor |-> bfloat16, module |-> "bfloat16"]
    ELSE [state |-> "Exception", fp16 |-> fp16, bf16 |-> bf16,
          float16_convertor |-> <<>>, module |-> "float32"]

Construct(fp16, bf16) ==
    /\ f16.state = "none"
    /\ f16' = Float16Module(fp16, bf16)
    /\ UNCHANGED <<fwd, inner, saved, coordVars, convVars>>

\* The positional inputs of a call: a tuple.
InputTrees == {t \in UNION {TreesOfSize(n) : n \in 1 .. MaxNodes - 1} :
                 IsContainer(t) /\ t.tag = "tuple"}

EmptyTuple == [tag |-> "tuple", kids |-> <<>>]

\* The keyword arguments of a call: a dict.
KwargsSet ==
    {<<>>} \cup {[k \in {"x"} |-> l] :
                   l \in {[cls |-> "Tensor", dtype |-> "float32"],
                          [cls |-> "Parameter", dtype |-> "float32"],
                          [tag |-> "list", kids |-> <<[cls |-> "Tensor", dtype |-> "float32"]>>]}}

\* the entry conversion applied to the keyword arguments too
forward_kwargs(p, v, inputs, kwargs, out) ==
    LET first == is_pipeline_first_stage(p, v, FALSE)
        last == is_pipeline_last_stage(p, v, FALSE)
        inputs1 == IF first
                   THEN fp32_to_float16(inputs, f16.float16_convertor)
                   ELSE inputs
        kwargs1 == IF first
                   THEN [k \in DOMAIN kwargs |->
                           fp32_to_float16(kwargs[k], f16.float16_convertor)]
                   ELSE kwargs
        outputs == IF out = Unset THEN inputs1 ELSE out
    IN  [first |-> first, last |-> last, inputs |-> inputs, kwargs |-> kwargs,
         module_inputs |-> inputs1, module_kwargs |-> kwargs1,
         module_outputs |-> outputs,
         outputs |-> IF last THEN float16_to_fp32(outputs) ELSE outputs]

\* Float16Module.forward(*inputs, **kwargs) on rank p at virtual rank v; the
\* inner module returns out.
forward(p, v, inputs, kwargs, out) ==
    LET first == is_pipeline_first_stage(p, v, FALSE)
        last == is_pipeline_last_stage(p, v, FALSE)
        inputs1 == IF first
                   THEN fp32_to_float16(inputs, f16.float16_convertor)
                   ELSE inputs
        outputs == IF out = Unset THEN inputs1 ELSE out
    IN  [first |-> first, last |-> last, inputs |-> inputs, kwargs |-> kwargs,
         module_inputs |-> inputs1, module_kwargs |-> kwargs,
         module_outputs |-> outputs,
         outputs |-> IF last THEN float16_to_fp32(outputs) ELSE outputs]

\* The values an inner module returns when it does not return its inputs.
OutputTrees == UNION {TreesOfSize(n) : n \in 1 .. MaxNodes - 1}

\* The inner module is either the identity on its positional inputs (out is
\* Unset) or, called without positional inputs, returns any nested value.
\* forward keeps no state between calls: one call per behaviour shows them all.
Forward(p, v) ==
    /\ f16.state = "ok"
    /\ fwd = NoCall
    /\ \E kwargs \in KwargsSet :
          \/ \E inputs \in InputTrees : fwd' = forward(p, v, inputs, kwargs, Unset)
          \/ \E out \in OutputTrees : fwd' = forward(p, v, EmptyTuple, kwargs, out)
    /\ UNCHANGED <<f16, inner, saved, coordVars, convVars>>

\* ------------------------------------------------------------ state persistence
\* A state dict is a set of entries; a key is the sequence of its dotted parts.
Entry(key, value, keep_vars) == [key |-> key, value |-> value, var |-> keep_vars]

ParamNames == {"w", "b"}

NoInner == [params |-> <<>>, override |-> FALSE]

\* The wrapped modules explored: two parameters, and whether the module
\* overrides state_dict_for_save_checkpoint.
InnerModules == [params : [ParamNames -> {0, 1}], override : BOOLEAN]

\* self.module.state_dict(destination, prefix, keep_vars)
module_state_dict(m, destination, prefix, keep_vars) ==
    destination \cup {Entry(prefix \o <<k>>, m.params[k], keep_vars) : k \in DOMAIN m.params}

\* self.module.state_dict_for_save_checkpoint(destination, prefix, keep_vars):
\* MegatronModule's default, or the wrapped module's own layout.
module_state_dict_for_save_checkpoint(m, destination, prefix, keep_vars) ==
    IF m.override
    THEN destination \cup {Entry(prefix \o <<"language_model", k>>, m.params[k], keep_vars) :
                             k \in DOMAIN m.params}
    ELSE module_state_dict(m, destination, prefix, keep_vars)

\* self.module.load_state_dict(state_dict, strict=strict): the parameters
\* named in state_dict are copied; with strict a missing or unexpected key is
\* an error.
module_load_state_dict(m, sd, strict) ==
    LET given == {e.key : e \in sd}
        expected == {<<k>> : k \in DOMAIN m.params}
        loaded == [k \in DOMAIN m.params |->
                     IF <<k>> \in given
                     THEN (CHOOSE e \in sd : e.key = <<k>>).value
                     ELSE m.params[k]]
    IN  [inner |-> [m EXCEPT !.params = loaded],
         error |-> strict /\ given # expected]

\* torch.nn.Module.state_dict, not overridden: the module's entries under "module."
state_dict_default(destination, prefix, keep_vars) ==
    module_state_dict(inner, destination, prefix \o <<"module">>, keep_vars)

\* Float16Module.state_dict(destination, prefix, keep_vars)
state_dict(destination, prefix, keep_vars) ==
    module_state_dict(inner, destination, prefix, keep_vars)

\* Float16Module.state_dict_for_save_checkpoint(destination, prefix, keep_vars)
state_dict_for_save_checkpoint(destination, prefix, keep_vars) ==
    module_state_dict_for_save_checkpoint(inner, destination, prefix, keep_vars)

\* Float16Module.load_state_dict(state_dict, strict)
load_state_dict(sd, strict) == module_load_state_dict(inner, sd, strict)

NoSaved == [op |-> "none", destination |-> {}, prefix |-> <<>>, keep_vars |-> FALSE,
            state_dict |-> {}, strict |-> FALSE, before |-> NoInner,
            returned |-> {}, error |-> FALSE]

\* The arguments explored.
Destinations == {{}, {Entry(<<"iteration">>, 1, FALSE)}}

Prefixes == {<<>>, <<"model">>}

\* State dicts to load: one value per key, over the module's keys and one more.
StateDicts ==
    UNION {{{Entry(<<k>>, f[k], FALSE) : k \in K} : f \in [K -> {0, 1}]} :
             K \in (SUBSET (ParamNames \cup {"x"})) \ {{}}}

StateDict(destination, prefix, keep_vars) ==
    /\ f16.state = "ok"
    /\ saved = NoSaved
    /\ saved' = [NoSaved EXCEPT !.op = "state_dict", !.destination = destination,
                    !.prefix = prefix, !.keep_vars = keep_vars, !.before = inner,
                    !.returned = state_dict(destination, prefix, keep_vars)]
    /\ UNCHANGED <<f16, fwd, inner, coordVars, convVars>>

StateDictForSaveCheckpoint(destination, prefix, keep_vars) ==
    /\ f16.state = "ok"
    /\ saved = NoSaved
    /\ saved' = [NoSaved EXCEPT !.op = "state_dict_for_save_checkpoint",
                    !.destination = destination,
                    !.prefix = prefix, !.keep_vars = keep_vars, !.before = inner,
                    !.returned = state_dict_for_save_checkpoint(destination, prefix, keep_vars)]
    /\ UNCHANGED <<f16, fwd, inner, coordVars, convVars>>

LoadStateDict(sd, strict) ==
    /\ f16.state = "ok"
    /\ saved = NoSaved
    /\ LET r == load_state_dict(sd, strict)
       IN  /\ inner' = r.inner
           /\ saved' = [NoSaved EXCEPT !.op = "load_state_dict", !.state_dict = sd,
                           !.strict = strict, !.before = inner, !.error = r.error]
    /\ UNCHANGED <<f16, fwd, coordVars, convVars>>

\* ------------------------------------------------------------ specifications
\* The pipeline configurations explored.
PipelineInit ==
    /\ pipeline_model_parallel_size \in 1 .. MaxStages
    /\ virtual_world_size \in {None} \cup (2 .. MaxVirtual)

\* MegatronModule.__init__ on every rank.
CoordInit ==
    /\ weight = [p \in Ranks |->
            IF p = 0 THEN [exists |-> TRUE, data |-> weight0, shared |-> FALSE]
            ELSE NoAttr]
    /\ word_embeddings = [p \in Ranks |-> NoAttr]
    /\ pc = [p \in Ranks |-> "idle"]
    /\ calls = [p \in Ranks |-> 0]
    /\ result = [p \in Ranks |-> "none"]
    /\ stage = [p \in Ranks |-> "none"]
    /\ warnings = [p \in Ranks |-> 0]
    /\ reduces = [p \in Ranks |-> 0]
    /\ allocs = [p \in Ranks |-> 0]

ConvIdle == val = Unset /\ conversion = <<>> /\ rtn = Unset /\ rtn2 = Unset

WrapIdle == f16 = NoModule /\ fwd = NoCall /\ inner = NoInner /\ saved = NoSaved

\* The shared-embedding protocol.
Init ==
    /\ PipelineInit
    /\ initialized \in BOOLEAN
    /\ share_word_embeddings \in [Ranks -> BOOLEAN]
    /\ weight0 \in Tensors
    /\ CoordInit
    /\ ConvIdle
    /\ WrapIdle

Next ==
    \/ \E p \in Ranks, v \in VirtualRanks : InitCall(p, v)
    \/ AllReduce
    \/ \E p \in Ranks : InitReturn(p)

Spec == Init /\ [][Next]_vars

\* The model chunks a process builds: one per virtual rank.
NumChunks == IF virtual_world_size = None THEN 1 ELSE virtual_world_size

\* Model construction on rank p: the process builds its chunks in the order of
\* their virtual ranks, and each calls initialize_word_embeddings once.
BuildCall(p) ==
    /\ calls[p] < NumChunks
    /\ initialize_word_embeddings(p, calls[p])

\* Construction of a model with sharing enabled on every rank, the
\* distributed runtime active.
LiveInit ==
    /\ PipelineInit
    /\ initialized = TRUE
    /\ share_word_embeddings = [p \in Ranks |-> TRUE]
    /\ weight0 \in Tensors
    /\ CoordInit
    /\ ConvIdle
    /\ WrapIdle

LiveNext ==
    \/ \E p \in Ranks : BuildCall(p)
    \/ AllReduce
    \/ \E p \in Ranks : InitReturn(p)

\* Every process runs: a call that can be made is made, a collective whose
\* members have all arrived completes, a completed call returns.
SpecLive ==
    /\ LiveInit
    /\ [][LiveNext]_vars
    /\ \A p \in 0 .. MaxStages - 1 :
          /\ WF_vars(p \in Ranks /\ BuildCall(p))
          /\ WF_vars(p \in Ranks /\ InitReturn(p))
    /\ WF_vars(AllReduce)

\* conversion_helper as a function of its two arguments.
ConvInit ==
    /\ pipeline_model_parallel_size = 1
    /\ virtual_world_size = None
    /\ initialized = FALSE
    /\ share_word_embeddings = [p \in Ranks |-> TRUE]
    /\ weight0 = [i \in 1 .. TensorLen |-> 0]
    /\ CoordInit
    /\ val \in Trees
    /\ conversion \in Conversions
    /\ rtn = Unset
    /\ rtn2 = Unset
    /\ WrapIdle

ConvNext == Convert \/ Reconvert

SpecConv == ConvInit /\ [][ConvNext]_vars

\* Float16Module on one worker of the pipeline.
WrapInit ==
    /\ PipelineInit
    /\ initialized = FALSE
    /\ share_word_embeddings = [p \in Ranks |-> TRUE]
    /\ weight0 = [i \in 1 .. TensorLen |-> 0]
    /\ CoordInit
    /\ ConvIdle
    /\ WrapIdle

WrapNext ==
    \/ \E fp16 \in BOOLEAN, bf16 \in BOOLEAN : Construct(fp16, bf16)
    \/ \E p \in Ranks, v \in VirtualRanks : Forward(p, v)

SpecWrap == WrapInit /\ [][WrapNext]_vars

\* Saving and restoring the state of a Float16Module.
StateInit ==
    /\ pipeline_model_parallel_size = 1
    /\ virtual_world_size = None
    /\ initialized = FALSE
    /\ share_word_embeddings = [p \in Ranks |-> TRUE]
    /\ weight0 = [i \in 1 .. TensorLen |-> 0]
    /\ CoordInit
    /\ ConvIdle
    /\ f16 = NoModule
    /\ fwd = NoCall
    /\ inner \in InnerModules
    /\ saved = NoSaved

StateNext ==
    \/ \E fp16 \in BOOLEAN, bf16 \in BOOLEAN : Construct(fp16, bf16)
    \/ \E destination \in Destinations, prefix \in Prefixes, keep_vars \in BOOLEAN :
          StateDict(destination, prefix, keep_vars)
    \/ \E destination \in Destinations, prefix \in Prefixes, keep_vars \in BOOLEAN :
          StateDictForSaveCheckpoint(destination, prefix, keep_vars)
    \/ \E sd \in StateDicts, strict \in BOOLEAN : LoadStateDict(sd, strict)

SpecState == StateInit /\ [][StateNext]_vars

\* ------------------------------------------------------------ properties
LastRank == pipeline_model_parallel_size - 1

\* The worker is the last stage and not the first, virtual stages ignored.
LastNotFirst(p) ==
    is_pipeline_last_stage(p, 0, TRUE) /\ ~is_pipeline_first_stage(p, 0, TRUE)

\* The worker is neither the first nor the last stage, virtual stages ignored.
NeitherStage(p) ==
    ~is_pipeline_last_stage(p, 0, TRUE) /\ ~is_pipeline_first_stage(p, 0, TRUE)

\* What word_embeddings_weight() gives on rank p in the current state.
Accessor(p) == word_embeddings_weight(p, word_embeddings[p])

\* Both boundary workers have returned from every call so far, and each has
\* been through the reduction at least once.
BothReturned ==
    /\ pipeline_model_parallel_size > 1
    /\ initialized
    /\ share_word_embeddings[0] /\ share_word_embeddings[LastRank]
    /\ pc[0] = "idle" /\ pc[LastRank] = "idle"
    /\ reduces[0] >= 1 /\ reduces[LastRank] >= 1

\* C1: with more than one stage, sharing enabled and the distributed runtime
\* active, once the first-stage and the last-stage worker have both returned
\* from initialize_word_embeddings, the first stage's tensor and the last
\* stage's dedicated tensor are element-wise equal, and equal to the values
\* the first stage's tensor held before initialization.
C1_EqualAfterInit ==
    BothReturned =>
        /\ result[0] = "returned" /\ result[LastRank] = "returned"
        /\ word_embeddings[LastRank].exists
        /\ weight[0].data = word_embeddings[LastRank].data
        /\ weight[0].data = weight0

C1_Witness ==
    /\ BothReturned
    /\ \A i \in 1 .. TensorLen : weight0[i] = 1
    /\ word_embeddings[LastRank].data = weight0

\* C2: with a single pipeline stage and sharing enabled,
\* initialize_word_embeddings returns without allocating a dedicated tensor,
\* tagging a tensor shared, entering a reduction or printing the warning,
\* whether or not the distributed runtime is active.
C2_SingleStageNoOp ==
    \A p \in Ranks :
        (pipeline_model_parallel_size = 1 /\ share_word_embeddings[p]) =>
            /\ calls[p] > 0 => result[p] = "returned"
            /\ pc[p] = "idle"
            /\ ~word_embeddings[p].exists /\ allocs[p] = 0
            /\ ~weight[p].shared /\ weight[p].data = weight0
            /\ reduces[p] = 0
            /\ warnings[p] = 0

C2_Witness ==
    /\ pipeline_model_parallel_size = 1
    /\ share_word_embeddings[0]
    /\ ~initialized
    /\ calls[0] >= 2
    /\ result[0] = "returned"

\* C3: initialize_word_embeddings on a model whose share_word_embeddings is
\* false raises for every stage count, role and runtime state, before any
\* effect: nothing is allocated, zeroed or tagged, no reduction is entered
\* and no warning is printed.
C3_ShareDisabledRaisesFirst ==
    \A p \in Ranks :
        ~share_word_embeddings[p] =>
            /\ calls[p] > 0 => result[p] = "ShareError"
            /\ pc[p] = "idle"
            /\ ~word_embeddings[p].exists /\ allocs[p] = 0
            /\ ~weight[p].shared
            /\ p = 0 => weight[p].data = weight0
            /\ reduces[p] = 0
            /\ warnings[p] = 0

C3_Witness ==
    /\ pipeline_model_parallel_size > 1
    /\ ~share_word_embeddings[LastRank]
    /\ stage[LastRank] = "last"
    /\ result[LastRank] = "ShareError"
    /\ ~initialized

\* C4 as stated: on a worker that is the last stage and not the first,
\* word_embeddings_weight returns the dedicated tensor if sharing is enabled
\* and raises the configuration error otherwise, in every reachable state,
\* also before initialize_word_embeddings was called.
C4_Original ==
    \A p \in Ranks :
        LastNotFirst(p) =>
            Accessor(p) = IF share_word_embeddings[p] THEN "head" ELSE "ShareError"

\* C4 as amended: on such a worker word_embeddings_weight raises the
\* configuration error if sharing is disabled; with sharing enabled it returns
\* the dedicated tensor once initialize_word_embeddings has allocated it on
\* that worker, and until then fails with an attribute error.
C4_Amended ==
    \A p \in Ranks :
        LastNotFirst(p) =>
            Accessor(p) = IF ~share_word_embeddings[p] THEN "ShareError"
                          ELSE IF allocs[p] >= 1 THEN "head"
                          ELSE "AttributeError"

C4_Witness ==
    \E p \in Ranks :
        /\ LastNotFirst(p)
        /\ share_word_embeddings[p]
        /\ allocs[p] >= 1
        /\ Accessor(p) = "head"

\* C5: on a worker that is neither the first nor the last stage,
\* word_embeddings_weight always raises, whatever the sharing flag and
\* whether or not initialization has run.
C5_NeitherStageRaises ==
    \A p \in Ranks : NeitherStage(p) => Accessor(p) = "RoleError"

C5_Witness ==
    \E p \in Ranks :
        /\ NeitherStage(p)
        /\ share_word_embeddings[p]
        /\ result[p] = "returned"
        /\ Accessor(p) = "RoleError"

\* C6: on a first-stage worker word_embeddings_weight returns the native
\* input-embedding weight whatever the sharing flag; with a single stage,
\* where the worker is also the last stage, it is never the dedicated tensor.
C6_FirstStageNative ==
    \A p \in Ranks :
        is_pipeline_first_stage(p, 0, TRUE) =>
            /\ Accessor(p) = "native"
            /\ Data(p) = weight[p].data

C6_Witness ==
    /\ pipeline_model_parallel_size = 1
    /\ is_pipeline_last_stage(0, 0, TRUE)
    /\ ~share_word_embeddings[0]
    /\ calls[0] > 0
    /\ Accessor(0) = "native"

\* C7 as stated: construction of Float16Module succeeds exactly when one of
\* fp16 and bf16 is chosen, and fails when neither or both are.
C7_Original ==
    f16.state # "none" =>
        (f16.state = "ok" <=> (f16.fp16 # f16.bf16))

\* C7 as amended: construction succeeds exactly when at least one of fp16 and
\* bf16 is chosen and fails only when neither is; when both are chosen fp16
\* decides, and the half convertor is installed.
C7_Amended ==
    f16.state # "none" =>
        /\ f16.state = "ok" <=> (f16.fp16 \/ f16.bf16)
        /\ f16.state = "Exception" <=> (~f16.fp16 /\ ~f16.bf16)
        /\ f16.fp16 => (f16.float16_convertor = half /\ f16.module = "float16")
        /\ (~f16.fp16 /\ f16.bf16) =>
              (f16.float16_convertor = bfloat16 /\ f16.module = "bfloat16")

C7_Witness ==
    /\ f16.state = "ok"
    /\ f16.fp16 /\ f16.bf16
    /\ f16.float16_convertor = half

RECURSIVE LeafSeq(_)
\* The leaves of a nested value, left to right.
LeafSeq(t) ==
    IF ~IsContainer(t) THEN <<t>>
    ELSE IF t.kids = <<>> THEN <<>>
    ELSE LeafSeq([t EXCEPT !.kids = SubSeq(t.kids, 1, Len(t.kids) - 1)])
         \o LeafSeq(t.kids[Len(t.kids)])

RECURSIVE Shape(_)
\* A nested value with its leaves erased: containers, their variants, the
\* number and order of their children.
Shape(t) ==
    IF ~IsContainer(t) THEN [tag |-> "leaf", kids |-> <<>>]
    ELSE [tag |-> t.tag, kids |-> [i \in 1 .. Len(t.kids) |-> Shape(t.kids[i])]]

IsTensor(l) == l.cls \in {"Tensor", "Parameter"}

IsFullPrecision(l) == IsTensor(l) /\ l.dtype = "float32"

IsReducedPrecision(l) == IsTensor(l) /\ l.dtype \in {"float16", "bfloat16"}

\* The reduced dtype chosen at construction.
SelectedDtype == IF f16.fp16 THEN "float16" ELSE "bfloat16"

\* C8: at the first stage every full-precision tensor leaf of the positional
\* inputs reaches the inner module converted to the precision selected at
\* construction and every other leaf reaches it unchanged; on a worker that is
\* not the first stage every leaf reaches it unchanged.
C8_EntryConversion ==
    fwd # NoCall =>
        IF fwd.first
        THEN /\ Shape(fwd.module_inputs) = Shape(fwd.inputs)
             /\ LET before == LeafSeq(fwd.inputs)
                    after == LeafSeq(fwd.module_inputs)
                IN  /\ Len(after) = Len(before)
                    /\ \A i \in 1 .. Len(before) :
                         after[i] = IF IsFullPrecision(before[i])
                                    THEN [cls |-> "Tensor", dtype |-> SelectedDtype]
                                    ELSE before[i]
        ELSE fwd.module_inputs = fwd.inputs

C8_Witness ==
    /\ fwd # NoCall
    /\ fwd.first
    /\ f16.bf16 /\ ~f16.fp16
    /\ fwd.inputs = [tag |-> "tuple", kids |->
                        <<[cls |-> "Tensor", dtype |-> "float32"],
                          [cls |-> "Tensor", dtype |-> "int64"]>>]
    /\ fwd.module_inputs = [tag |-> "tuple", kids |->
                        <<[cls |-> "Tensor", dtype |-> "bfloat16"],
                          [cls |-> "Tensor", dtype |-> "int64"]>>]

\* C9: at the last stage every half or bfloat16 leaf of the inner module's
\* outputs is returned in full precision, whichever reduced mode was selected,
\* and every other leaf unchanged; on a worker that is not the last stage the
\* outputs are returned unchanged.
C9_ExitConversion ==
    fwd # NoCall =>
        IF fwd.last
        THEN /\ Shape(fwd.outputs) = Shape(fwd.module_outputs)
             /\ LET before == LeafSeq(fwd.module_outputs)
                    after == LeafSeq(fwd.outputs)
                IN  /\ Len(after) = Len(before)
                    /\ \A i \in 1 .. Len(before) :
                         after[i] = IF IsReducedPrecision(before[i])
                                    THEN [cls |-> "Tensor", dtype |-> "float32"]
                                    ELSE before[i]
        ELSE fwd.outputs = fwd.module_outputs

C9_Witness ==
    /\ fwd # NoCall
    /\ fwd.last /\ ~fwd.first
    /\ f16.fp16 /\ ~f16.bf16
    /\ fwd.module_outputs = [tag |-> "list", kids |->
                        <<[cls |-> "Tensor", dtype |-> "bfloat16"],
                          [cls |-> "Tensor", dtype |-> "float64"]>>]
    /\ fwd.outputs = [tag |-> "list", kids |->
                        <<[cls |-> "Tensor", dtype |-> "float32"],
                          [cls |-> "Tensor", dtype |-> "float64"]>>]

\* C10: conversion_helper returns a value with the nesting, the number and
\* order of children and the container variant of its argument at every
\* node, the conversion applied once to each leaf; an empty list or tuple at
\* any depth comes back as an empty container of the same variant.
C10_StructurePreserved ==
    rtn # Unset =>
        /\ Shape(rtn) = Shape(val)
        /\ LET before == LeafSeq(val)
               after == LeafSeq(rtn)
           IN  /\ Len(after) = Len(before)
               /\ \A i \in 1 .. Len(before) : after[i] = conversion[before[i]]

C10_Witness ==
    /\ conversion = next_dtype
    /\ val = [tag |-> "tuple", kids |->
                 <<[tag |-> "list", kids |-> <<[tag |-> "tuple", kids |-> <<>>]>>],
                   [cls |-> "Tensor", dtype |-> "float16"]>>]
    /\ rtn = [tag |-> "tuple", kids |->
                 <<[tag |-> "list", kids |-> <<[tag |-> "tuple", kids |-> <<>>]>>],
                   [cls |-> "Tensor", dtype |-> "bfloat16"]>>]

\* Every leaf of the nested value is a full-precision tensor.
AllFullPrecision(t) ==
    \A i \in 1 .. Len(LeafSeq(t)) : IsFullPrecision(LeafSeq(t)[i])

\* C11: for a nested value whose leaves are all full-precision tensors, the
\* entry conversion followed by the exit conversion, as a single-stage
\* pipeline applies them around an identity inner module, gives a value of
\* the same structure whose leaves are all full precision again.
C11_RoundTrip ==
    (/\ fwd # NoCall
     /\ fwd.first /\ fwd.last
     /\ fwd.module_outputs = fwd.module_inputs
     /\ AllFullPrecision(fwd.inputs)) =>
        /\ Shape(fwd.outputs) = Shape(fwd.inputs)
        /\ Len(LeafSeq(fwd.outputs)) = Len(LeafSeq(fwd.inputs))
        /\ \A i \in 1 .. Len(LeafSeq(fwd.module_inputs)) :
              LeafSeq(fwd.module_inputs)[i] = [cls |-> "Tensor", dtype |-> SelectedDtype]
        /\ \A i \in 1 .. Len(LeafSeq(fwd.outputs)) :
              LeafSeq(fwd.outputs)[i] = [cls |-> "Tensor", dtype |-> "float32"]

C11_Witness ==
    /\ pipeline_model_parallel_size = 1
    /\ fwd.first /\ fwd.last
    /\ f16.bf16 /\ ~f16.fp16
    /\ fwd.inputs = [tag |-> "tuple", kids |->
                        <<[tag |-> "list", kids |->
                             <<[cls |-> "Parameter", dtype |-> "float32"]>>]>>]
    /\ fwd.module_inputs = [tag |-> "tuple", kids |->
                        <<[tag |-> "list", kids |->
                             <<[cls |-> "Tensor", dtype |-> "bfloat16"]>>]>>]
    /\ fwd.outputs = [tag |-> "tuple", kids |->
                        <<[tag |-> "list", kids |->
                             <<[cls |-> "Tensor", dtype |-> "float32"]>>]>>]

\* C12: the wrapper's state_dict and state_dict_for_save_checkpoint return
\* what the inner module's operation of the same name returns for the same
\* arguments (an inner override of state_dict_for_save_checkpoint included),
\* and load_state_dict loads the given state dict into the inner module with
\* the caller's strict flag; the wrapper adds no key prefix and no entry.
C12_PersistenceDelegates ==
    /\ saved.op = "state_dict" =>
          /\ saved.returned = module_state_dict(saved.before, saved.destination,
                                                saved.prefix, saved.keep_vars)
          /\ {e.key : e \in saved.returned \ saved.destination}
                = {saved.prefix \o <<k>> : k \in ParamNames}
          /\ inner = saved.before
    /\ saved.op = "state_dict_for_save_checkpoint" =>
          /\ saved.returned = module_state_dict_for_save_checkpoint(
                                  saved.before, saved.destination,
                                  saved.prefix, saved.keep_vars)
          /\ \A e \in saved.returned \ saved.destination :
                /\ Len(e.key) = Len(saved.prefix) + (IF saved.before.override THEN 2 ELSE 1)
                /\ e.var = saved.keep_vars
          /\ inner = saved.before
    /\ saved.op = "load_state_dict" =>
          /\ inner = module_load_state_dict(saved.before, saved.state_dict,
                                             saved.strict).inner
          /\ \A e \in saved.state_dict :
                e.key \in {<<k>> : k \in ParamNames} => inner.params[e.key[1]] = e.value
          /\ saved.error <=>
                (saved.strict /\ {e.key : e \in saved.state_dict}
                                   # {<<k>> : k \in ParamNames})
          /\ inner.override = saved.before.override
    /\ saved.op # "none" => f16.state = "ok"

C12_Witness ==
    /\ saved.op = "state_dict_for_save_checkpoint"
    /\ saved.before.override
    /\ saved.prefix = <<"model">>
    /\ \E e \in saved.returned : e.key = <<"model", "language_model", "w">>

Zeros == [i \in 1 .. TensorLen |-> 0]

\* C13: with more than one stage, sharing enabled and the distributed runtime
\* inactive, initialize_word_embeddings completes without error and without
\* entering a collective, prints the warning once per call, and leaves the
\* last stage's dedicated tensor all zeros.
C13_InactiveRuntimeWarns ==
    \A p \in Ranks :
        (pipeline_model_parallel_size > 1 /\ ~initialized /\ share_word_embeddings[p]) =>
            /\ pc[p] = "idle"
            /\ calls[p] > 0 => result[p] = "returned"
            /\ reduces[p] = 0
            /\ warnings[p] = calls[p]
            /\ stage[p] = "last" => word_embeddings[p].exists
            /\ word_embeddings[p].exists =>
                  (word_embeddings[p].data = Zeros /\ word_embeddings[p].shared)
            /\ p = 0 => weight[p].data = weight0

C13_Witness ==
    /\ pipeline_model_parallel_size > 1
    /\ ~initialized
    /\ share_word_embeddings[LastRank]
    /\ stage[LastRank] = "last"
    /\ warnings[LastRank] = 2
    /\ word_embeddings[LastRank].data = Zeros
    /\ weight0 # Zeros

\* The reductions rank p has come out of.
Completed(p) == reduces[p] - (IF pc[p] = "all_reduce" THEN 1 ELSE 0)

\* C14: the reduction is a blocking collective over the first/last-stage
\* group: neither boundary worker comes out of a reduction the other has not
\* reached, and a worker that is neither first nor last stage never enters
\* the reduction and returns without waiting.
C14_BlockingCollective ==
    /\ pipeline_model_parallel_size > 1 =>
          \A p \in embedding_group, q \in embedding_group : Completed(p) <= reduces[q]
    /\ \A p \in Ranks :
          /\ stage[p] = "neither" => pc[p] = "idle"
          /\ NeitherStage(p) =>
                /\ reduces[p] = 0
                /\ pc[p] = "idle"
                /\ (share_word_embeddings[p] /\ calls[p] > 0) => result[p] = "returned"

C14_Witness ==
    /\ pipeline_model_parallel_size = 3
    /\ result[0] = "returned" /\ reduces[0] = 1
    /\ pc[2] = "reduced"
    /\ result[1] = "returned" /\ reduces[1] = 0 /\ share_word_embeddings[1]

\* C15: with more than one stage a last-stage worker allocates the dedicated
\* tensor, zeroes it and tags it shared before it enters the reduction, so it
\* contributes zeros to the sum; a call that does not run as last stage
\* allocates nothing and tags nothing.
C15_ZeroedBeforeReduce ==
    /\ [](\A p \in Ranks :
            /\ (pc[p] = "all_reduce" /\ stage[p] = "last") =>
                  /\ word_embeddings[p].exists
                  /\ Len(word_embeddings[p].data) = TensorLen
                  /\ word_embeddings[p].data = Zeros
                  /\ ~param_is_not_shared(word_embeddings[p])
            /\ word_embeddings[p].exists <=> allocs[p] >= 1
            /\ word_embeddings[p].exists =>
                  (p = LastRank /\ pipeline_model_parallel_size > 1
                   /\ ~param_is_not_shared(word_embeddings[p]))
            /\ param_is_not_shared(weight[p]))
    /\ [][\A p \in Ranks :
            (allocs'[p] # allocs[p] \/ word_embeddings'[p].exists # word_embeddings[p].exists)
                => (stage'[p] = "last" /\ calls'[p] = calls[p] + 1)]_vars

C15_Witness ==
    /\ pipeline_model_parallel_size > 1
    /\ pc[LastRank] = "all_reduce"
    /\ stage[LastRank] = "last"
    /\ pc[0] = "idle" /\ calls[0] = 0
    /\ weight0 # Zeros
    /\ word_embeddings[LastRank].data = Zeros
    /\ word_embeddings[LastRank].shared

\* C16: float16_to_fp32 leaves full-precision leaves and leaves that are no
\* tensors as they are, returns half and bfloat16 leaves in full precision,
\* and applied to its own result changes nothing.
C16_ExitIdempotent ==
    (conversion = float_conversion /\ rtn # Unset) =>
        /\ rtn = float16_to_fp32(val)
        /\ Shape(rtn) = Shape(val)
        /\ \A i \in 1 .. Len(LeafSeq(val)) :
              LeafSeq(rtn)[i] = IF IsReducedPrecision(LeafSeq(val)[i])
                                THEN [cls |-> "Tensor", dtype |-> "float32"]
                                ELSE LeafSeq(val)[i]
        /\ rtn2 # Unset => rtn2 = rtn

C16_Witness ==
    /\ conversion = float_conversion
    /\ val = [tag |-> "list", kids |->
                 <<[cls |-> "Tensor", dtype |-> "float16"],
                   [cls |-> "Tensor", dtype |-> "float32"],
                   [cls |-> "Parameter", dtype |-> "float16"]>>]
    /\ rtn = [tag |-> "list", kids |->
                 <<[cls |-> "Tensor", dtype |-> "float32"],
                   [cls |-> "Tensor", dtype |-> "float32"],
                   [cls |-> "Tensor", dtype |-> "float32"]>>]
    /\ rtn2 = rtn

\* C17: the assertion that a last-stage worker is not also the first stage
\* never fails: it is reached only with more than one stage, and then no
\* worker holds both roles at any virtual rank.
C17_AssertionHolds ==
    /\ \A p \in Ranks : result[p] # "AssertionError"
    /\ pipeline_model_parallel_size > 1 =>
          \A p \in Ranks, v \in VirtualRanks :
              ~(is_pipeline_first_stage(p, v, FALSE) /\ is_pipeline_last_stage(p, v, FALSE))
    /\ pipeline_model_parallel_size = 1 => \A p \in Ranks : allocs[p] = 0

C17_Witness ==
    /\ pipeline_model_parallel_size > 1
    /\ virtual_world_size # None
    /\ stage[LastRank] = "last"
    /\ allocs[LastRank] >= 1
    /\ result[LastRank] = "returned"
    /\ stage[0] = "first"
    /\ result[0] = "returned"

\* C18: there is no timeout or cancellation: a boundary worker inside the
\* reduction stays inside it in every step in which a member of the group is
\* not inside it, so it never returns if its peer never arrives.
C18_NoTimeout ==
    [][\A p \in Ranks :
         (pc[p] = "all_reduce" /\ \E q \in embedding_group : pc[q] # "all_reduce")
             => (pc'[p] = "all_reduce" /\ result'[p] = "all_reduce")]_vars

C18_Witness ==
    /\ pipeline_model_parallel_size > 1
    /\ pc[0] = "all_reduce"
    /\ ~share_word_embeddings[LastRank]
    /\ result[LastRank] = "ShareError"
    /\ SumOver(Ranks, calls) = MaxCalls

\* Every process has built all its chunks and every call has returned.
LiveDone ==
    \A p \in Ranks :
        calls[p] = NumChunks /\ pc[p] = "idle" /\ result[p] = "returned"

\* C19: with sharing enabled on every worker and the distributed runtime
\* active, if every worker calls initialize_word_embeddings then under fair
\* scheduling every call returns, the first and the last stage having met in
\* one reduction each and no other worker having waited; no state short of
\* that is a deadlock.
C19_EveryCallReturns ==
    /\ <>[]LiveDone
    /\ [](LiveDone \/ ENABLED LiveNext)
    /\ [](LiveDone =>
            \A p \in Ranks :
                reduces[p] = IF pipeline_model_parallel_size > 1 /\ p \in embedding_group
                             THEN 1 ELSE 0)

C19_Witness ==
    /\ LiveDone
    /\ pipeline_model_parallel_size = 3
    /\ virtual_world_size = 2
    /\ reduces = [p \in Ranks |-> IF p = 1 THEN 0 ELSE 1]
    /\ weight0 # Zeros
    /\ word_embeddings[LastRank].data = weight0

\* C20: initialization is repeatable: after any number of paired calls of the
\* first-stage and the last-stage worker both tensors equal the first stage's
\* original values, the last stage having allocated and zeroed a new tensor
\* for every reduction; the values never accumulate.
C20_Repeatable ==
    (/\ pipeline_model_parallel_size > 1
     /\ initialized
     /\ share_word_embeddings[0] /\ share_word_embeddings[LastRank]) =>
        /\ weight[0].data = weight0
        /\ allocs[LastRank] = reduces[LastRank]
        /\ pc[LastRank] = "all_reduce" => word_embeddings[LastRank].data = Zeros
        /\ (pc[LastRank] # "all_reduce" /\ word_embeddings[LastRank].exists) =>
              word_embeddings[LastRank].data = weight0
        /\ (pc[0] = "idle" /\ pc[LastRank] = "idle") => reduces[0] = reduces[LastRank]

C20_Witness ==
    /\ BothReturned
    /\ reduces[0] = 2 /\ reduces[LastRank] = 2
    /\ allocs[LastRank] = 2
    /\ \A i \in 1 .. TensorLen : weight0[i] = 1
    /\ word_embeddings[LastRank].data = weight0
    /\ weight[0].data = weight0

\* C21: the accessor never fails inside initialization: every call that
\* reaches the reduction branch as first or last stage (virtual stages taken
\* into account) enters the reduction, word_embeddings_weight (which ignores
\* virtual stages) giving the native tensor on the first stage and the
\* just-allocated dedicated tensor on the last stage; no call ends in the
\* accessor's sharing-disabled, neither-role or missing-attribute failure.
C21_AccessorInsideInit ==
    /\ [](\A p \in Ranks :
            /\ result[p] \notin {"AttributeError", "RoleError"}
            /\ share_word_embeddings[p] => result[p] # "ShareError"
            /\ pc[p] = "all_reduce" =>
                  /\ stage[p] \in {"first", "last"}
                  /\ stage[p] = "first" => (Accessor(p) = "native" /\ weight[p].exists)
                  /\ stage[p] = "last" =>
                        (Accessor(p) = "head" /\ word_embeddings[p].exists
                         /\ word_embeddings[p].data = Zeros))
    /\ [][\A p \in Ranks :
            (/\ initialized /\ share_word_embeddings[p]
             /\ pipeline_model_parallel_size > 1
             /\ calls'[p] = calls[p] + 1
             /\ stage'[p] \in {"first", "last"})
                => (pc'[p] = "all_reduce" /\ result'[p] = "all_reduce"
                    /\ reduces'[p] = reduces[p] + 1)]_vars

C21_Witness ==
    /\ virtual_world_size = 2
    /\ pipeline_model_parallel_size > 1
    /\ pc[0] = "all_reduce" /\ stage[0] = "first" /\ calls[0] = 2
    /\ pc[LastRank] = "all_reduce" /\ stage[LastRank] = "last" /\ calls[LastRank] = 2
    /\ Accessor(0) = "native"
    /\ Accessor(LastRank) = "head"

\* C22: the entry conversion covers the positional inputs only: at every
\* stage, the first included, the keyword arguments reach the inner module
\* exactly as the caller passed them, so a full-precision tensor passed by
\* keyword is not converted.
C22_KwargsUnchanged ==
    fwd # NoCall =>
        /\ fwd.module_kwargs = fwd.kwargs
        /\ DOMAIN fwd.module_kwargs = DOMAIN fwd.kwargs
        /\ \A k \in DOMAIN fwd.kwargs :
              /\ Shape(fwd.module_kwargs[k]) = Shape(fwd.kwargs[k])
              /\ LeafSeq(fwd.module_kwargs[k]) = LeafSeq(fwd.kwargs[k])
              /\ \A i \in 1 .. Len(LeafSeq(fwd.module_kwargs[k])) :
                    IsFullPrecision(LeafSeq(fwd.module_kwargs[k])[i])

C22_Witness ==
    /\ fwd.first
    /\ f16.fp16
    /\ fwd.inputs = [tag |-> "tuple", kids |-> <<[cls |-> "Tensor", dtype |-> "float32"]>>]
    /\ fwd.module_inputs = [tag |-> "tuple", kids |-> <<[cls |-> "Tensor", dtype |-> "float16"]>>]
    /\ DOMAIN fwd.kwargs = {"x"}
    /\ fwd.kwargs["x"] = [cls |-> "Tensor", dtype |-> "float32"]
    /\ fwd.module_kwargs["x"] = [cls |-> "Tensor", dtype |-> "float32"]

====
